---- MODULE Spec2Model ----
(***************************************************************************)
(* Request-handling core of backend/main.py: the sliding-window rate       *)
(* limiter (rate_limit_middleware), the conversation store                 *)
(* (thread_last_active + checkpointer.storage) with capacity eviction in   *)
(* chat() and the TTL sweep of cleanup_old_threads(), and the streaming    *)
(* multiplexer generate().                                                 *)
(*                                                                         *)
(* Time is time.time() in whole seconds and never runs backwards.  The     *)
(* numeric limits of the source are scaled down so that the state space    *)
(* is finite and small; each keeps the source's name and its source value  *)
(* is given next to it.  Everything between two awaits of a coroutine is   *)
(* one action (asyncio runs it without interleaving).                      *)
(***************************************************************************)
EXTENDS Integers, Sequences, FiniteSets, TLC

\* ---- limits of the source, scaled ------------------------------------
\* main.py:66  RATE_LIMIT = 10
RATE_LIMIT == 2
\* main.py:67  RATE_WINDOW = 60
RATE_WINDOW == 2
\* main.py:30  THREAD_TTL = 3600
THREAD_TTL == 3
\* main.py:31  THREAD_CLEANUP_INTERVAL = 600
THREAD_CLEANUP_INTERVAL == 2
\* main.py:32  MAX_THREADS = 200
MAX_THREADS == 2

\* ---- bounds of the model ---------------------------------------------
\* the clock stops here
MaxTime == 4
\* agent events one stream consumes
MaxEvents == 3

\* client identities (request.client.host, or "unknown")
Clients == {"unknown", "10.0.0.1"}
\* conversation IDs "t1" < "t2" < ... in string order, written as their index
Threads == 1..(MAX_THREADS + 1)
\* request paths: the chat endpoint, another path under /api/, one outside it
Paths == {"/api/chat", "/api/other", "/health"}

\* ---- agent events (astream_events, version "v1") ----------------------
\* ok: json.dumps accepts the event's payload
RecognisedTools == {"get_historical_stock_price", "generate_stock_forecast",
                    "get_analyst_recommendations", "get_stock_news",
                    "get_balance_sheet"}
ToolNames == RecognisedTools \cup {"get_stock_price"}

TokenEvents == [kind : {"on_chat_model_stream"}, name : {""},
                content : {"", "a", "b"}, ok : {TRUE}]
ToolEndEvents == [kind : {"on_tool_end"}, name : ToolNames,
                  content : {"out"}, ok : BOOLEAN]
OtherEvents == [kind : {"on_chain_start"}, name : {""}, content : {""}, ok : {TRUE}]
AgentEvents == TokenEvents \cup ToolEndEvents \cup OtherEvents

VARIABLES
    now,                \* time.time()
    rate_limit_store,   \* client -> list of admitted timestamps
    thread_last_active, \* dict in insertion order: sequence of [tid, last]
    storage,            \* keys of checkpointer.storage
    reqs,               \* conversation -> its chat request (at most one in flight)
    sweepAt,            \* when the sweep task's sleep ends
    admitted,           \* history: per client, the admissions of the trailing window
    lastAdmit,          \* history: per client, the latest admission (-1: none)
    last,               \* history: the step just taken
    forecast            \* a call of generate_stock_forecast: its inputs and result

vars == <<now, rate_limit_store, thread_last_active, storage, reqs, sweepAt,
          admitted, lastAdmit, last, forecast>>

\* ---- dict[str, float] with Python's insertion order -------------------
Keys(d) == {d[i].tid : i \in DOMAIN d}

Get(d, k) == LET i == CHOOSE i \in DOMAIN d : d[i].tid = k IN d[i].last

\* a touch that leaves the timestamp of a key already present (setdefault)
DictSetDefault(d, k, v) ==
    IF k \in Keys(d) THEN d ELSE Append(d, [tid |-> k, last |-> v])

\* d[k] = v : an existing key keeps its place, a new key goes last
DictSet(d, k, v) ==
    IF k \in Keys(d)
    THEN [i \in DOMAIN d |-> IF d[i].tid = k THEN [tid |-> k, last |-> v] ELSE d[i]]
    ELSE Append(d, [tid |-> k, last |-> v])

\* d.pop(k, None)
DictPop(d, k) == SelectSeq(d, LAMBDA e : e.tid # k)

\* a minimum that keeps the last of several least values
MinKeyLast(d) ==
    LET i == CHOOSE i \in DOMAIN d :
                 /\ \A j \in DOMAIN d : d[i].last <= d[j].last
                 /\ \A j \in (i + 1)..Len(d) : d[j].last > d[i].last
    IN d[i].tid

\* min(d, key=d.get): the first key, in iteration order, whose value is least
MinKey(d) ==
    LET i == CHOOSE i \in DOMAIN d :
                 /\ \A j \in DOMAIN d : d[i].last <= d[j].last
                 /\ \A j \in 1..(i - 1) : d[j].last > d[i].last
    IN d[i].tid

\* a capacity check that is off by one
OverCapacityLoose(d) == Len(d) > MAX_THREADS + 1

\* len(thread_last_active) > MAX_THREADS
OverCapacity(d) == Len(d) > MAX_THREADS

\* an expiry test that is off by one
ExpiredEarly(t0, t) == t0 - t >= THREAD_TTL

\* an expiry test that lets an entry live a second too long
ExpiredLate(t0, t) == t0 - t > THREAD_TTL + 1

\* now - last > THREAD_TTL
Expired(t0, t) == t0 - t > THREAD_TTL

\* ---- rate limiter -----------------------------------------------------
\* a prune that keeps timestamps two seconds too long
PruneLate(w, t0) == SelectSeq(w, LAMBDA t : t0 - t < RATE_WINDOW + 2)

\* a prune that keeps a timestamp aged exactly RATE_WINDOW
PruneInclusive(w, t0) == SelectSeq(w, LAMBDA t : t0 - t <= RATE_WINDOW)

\* [t for t in rate_limit_store[ip] if now - t < RATE_WINDOW]
Prune(w, t0) == SelectSeq(w, LAMBDA t : t0 - t < RATE_WINDOW)

\* a limiter that guards every path
IsApiPathAll(p) == TRUE

\* request.url.path.startswith("/api/")
IsApiPath(p) == p \in {"/api/chat", "/api/other"}

\* a limit check that is off by one
OverLimitStrict(w) == Len(w) > RATE_LIMIT

\* len(rate_limit_store[ip]) >= RATE_LIMIT
OverLimit(w) == Len(w) >= RATE_LIMIT

\* ---- generate(): what one agent event writes to the client ------------
Line(type, data) == [type |-> type, data |-> data]

\* a dispatch that takes the price tool for the historical one
ToolTypePriceAsChart(name) ==
    CASE name \in {"get_historical_stock_price", "get_stock_price"} -> "chart"
      [] name = "generate_stock_forecast" -> "forecast"
      [] name = "get_analyst_recommendations" -> "analyst_rating"
      [] name = "get_stock_news" -> "news"
      [] name = "get_balance_sheet" -> "balance_sheet"
      [] OTHER -> "none"

\* the if / elif chain on tool_name
ToolType(name) ==
    CASE name = "get_historical_stock_price" -> "chart"
      [] name = "generate_stock_forecast" -> "forecast"
      [] name = "get_analyst_recommendations" -> "analyst_rating"
      [] name = "get_stock_news" -> "news"
      [] name = "get_balance_sheet" -> "balance_sheet"
      [] OTHER -> "none"

\* json.dumps raises and nothing catches it
Raises(e) ==
    /\ e.kind = "on_tool_end"
    /\ e.name \in RecognisedTools \ {"get_balance_sheet"}
    /\ ~e.ok

\* the lines yielded for event e
Emit(e) ==
    IF e.kind = "on_chat_model_stream"
    THEN IF e.content # "" THEN <<Line("text", e.content)>> ELSE <<>>
    ELSE IF e.kind = "on_tool_end"
    THEN IF ToolType(e.name) = "none" THEN <<>>
         ELSE IF e.ok THEN <<Line(ToolType(e.name), e.content)>>
         ELSE IF e.name = "get_balance_sheet"
         THEN <<Line("text", "Error displaying balance sheet.")>>
         ELSE <<>>
    ELSE <<>>

\* ---- history kept for the properties ----------------------------------
\* the rolling window the limiter is specified over: [t0 - RATE_WINDOW + 1, t0]
InWindow(t0, t) == t0 - t < RATE_WINDOW

\* pc: none, admitted (passed the middleware), streaming, closed, failed
\* (an exception ended the stream), cancelled (the client went away)
NoReq == [pc |-> "none", consumed |-> <<>>, out |-> <<>>]

NoStep == [op |-> "init", ip |-> "", path |-> "", tid |-> 0, code |-> 0,
           gone |-> {}, prev |-> -1]

\* ---- generate_stock_forecast ----------------------------------------------
\* bounds of the forecast inputs: trading days are numbered 1..MaxDay,
\* months runs over 0..MaxMonths
MaxDay == 3
MaxMonths == 3

\* hours by which the exchange's clock is ahead of UTC (New York in winter,
\* London, Tokyo)
UtcOffsets == {-5, 0, 9}

\* what the regression predicts, in thousandths of the currency unit
Predictions == {150244, 150245, 150246}

\* the histories yfinance can return: trading days in ascending order
RECURSIVE Ascending(_)
Ascending(h) ==
    \/ Len(h) <= 1
    \/ h[1] < h[2] /\ Ascending(Tail(h))

Histories ==
    {h \in UNION {[1..n -> 1..MaxDay] : n \in 0..MaxDay} : Ascending(h)}

\* hist['Date'] of a trading day: midnight of that day on the exchange's
\* clock, as an instant in hours since day 0, 00:00 UTC
LocalMidnight(day, offset) == day * 24 - offset

\* lines 163-164: a tz-aware column goes through tz_convert(None), which
\* leaves the UTC wall clock; a naive column is kept as it is
NaiveDate(day, tzAware, offset) ==
    IF tzAware THEN LocalMidnight(day, offset) ELSE day * 24

\* strftime("%Y-%m-%d") and toordinal(): the calendar day of an instant
DayOf(instant) == instant \div 24

\* last_date + timedelta(days=30 * i)
FutureDate(last_date, i) == last_date + 24 * 30 * i

\* round(float(p), 2): the hundredths nearest to p; a p halfway between two
\* of them goes either way, as its binary float falls
Round2(p) ==
    IF p % 10 < 5 THEN {p \div 10}
    ELSE IF p % 10 > 5 THEN {p \div 10 + 1}
    ELSE {p \div 10, p \div 10 + 1}

NoForecast == [state |-> "idle", hist |-> <<>>, tzAware |-> FALSE, offset |-> 0,
               months |-> 0, sentinel |-> FALSE, preds |-> <<>>, points |-> <<>>]

\* the result for a history, given what the regression predicted and how
\* the roundings fell: "Not enough data to forecast." or the list of points
generate_stock_forecast(hist, tzAware, offset, months, preds, prices) ==
    IF hist = <<>>
    THEN [sentinel |-> TRUE, preds |-> <<>>, points |-> <<>>]
    ELSE LET last_date == NaiveDate(hist[Len(hist)], tzAware, offset)
         IN [sentinel |-> FALSE,
             preds |-> preds,
             points |-> [i \in 1..months |->
                            [date |-> DayOf(FutureDate(last_date, i)),
                             price |-> prices[i]]]]

\* the tool has been called with some history, time zone and months
InitForecast ==
    /\ now = 0
    /\ rate_limit_store = [c \in Clients |-> <<>>]
    /\ thread_last_active = <<>>
    /\ storage = {}
    /\ reqs = [tid \in Threads |-> NoReq]
    /\ sweepAt = THREAD_CLEANUP_INTERVAL
    /\ admitted = [c \in Clients |-> <<>>]
    /\ lastAdmit = [c \in Clients |-> -1]
    /\ last = NoStep
    /\ \E h \in Histories, tz \in BOOLEAN, off \in UtcOffsets, m \in 0..MaxMonths :
           forecast = [NoForecast EXCEPT !.state = "called", !.hist = h, !.tzAware = tz,
                                         !.offset = off, !.months = m]

\* generate_stock_forecast runs to its return
GenerateStockForecast ==
    /\ forecast.state = "called"
    /\ \E preds \in [1..forecast.months -> Predictions] :
       \E prices \in [1..forecast.months -> UNION {Round2(p) : p \in Predictions}] :
           /\ \A i \in 1..forecast.months : prices[i] \in Round2(preds[i])
           /\ LET r == generate_stock_forecast(forecast.hist, forecast.tzAware,
                                               forecast.offset, forecast.months,
                                               preds, prices)
              IN forecast' = [forecast EXCEPT !.state = "returned",
                                              !.sentinel = r.sentinel,
                                              !.preds = r.preds,
                                              !.points = r.points]
    /\ last' = [NoStep EXCEPT !.op = "forecast"]
    /\ UNCHANGED <<now, rate_limit_store, thread_last_active, storage, reqs, sweepAt,
                   admitted, lastAdmit>>

Init ==
    /\ now = 0
    /\ rate_limit_store = [c \in Clients |-> <<>>]
    /\ thread_last_active = <<>>
    /\ storage = {}
    /\ reqs = [tid \in Threads |-> NoReq]
    /\ sweepAt = THREAD_CLEANUP_INTERVAL
    /\ admitted = [c \in Clients |-> <<>>]
    /\ lastAdmit = [c \in Clients |-> -1]
    /\ last = NoStep
    /\ forecast = NoForecast

\* how far the clock runs where the sweep timer is followed over several periods
MaxClock == 7

\* the clock advances while no sweep is due: asyncio.sleep returns when its
\* time is up, the loop body runs before any later second begins
TickOnTime ==
    /\ now < MaxClock
    /\ now < sweepAt
    /\ now' = now + 1
    /\ admitted' = [c \in Clients |-> SelectSeq(admitted[c], LAMBDA t : InWindow(now + 1, t))]
    /\ last' = [NoStep EXCEPT !.op = "tick"]
    /\ UNCHANGED <<forecast, rate_limit_store, thread_last_active, storage, reqs, sweepAt, lastAdmit>>

\* the clock advances
Tick ==
    /\ now < MaxTime
    /\ now' = now + 1
    /\ admitted' = [c \in Clients |-> SelectSeq(admitted[c], LAMBDA t : InWindow(now + 1, t))]
    /\ last' = [NoStep EXCEPT !.op = "tick"]
    /\ UNCHANGED <<forecast, rate_limit_store, thread_last_active, storage, reqs, sweepAt, lastAdmit>>

\* rate_limit_middleware, lines 78-83: is the request over the limit
Limited(c, p) == IsApiPath(p) /\ OverLimit(Prune(rate_limit_store[c], now))

\* a recording that appends to the window as it was, not to the pruned one
RecordUnpruned(c, p) ==
    IF IsApiPath(p)
    THEN /\ rate_limit_store' = [rate_limit_store EXCEPT ![c] = Append(@, now)]
         /\ admitted' = [admitted EXCEPT ![c] = Append(@, now)]
         /\ lastAdmit' = [lastAdmit EXCEPT ![c] = now]
    ELSE UNCHANGED <<rate_limit_store, admitted, lastAdmit>>

\* rate_limit_middleware, lines 81-89 for a request that is let through
Record(c, p) ==
    IF IsApiPath(p)
    THEN /\ rate_limit_store' = [rate_limit_store EXCEPT ![c] = Append(Prune(@, now), now)]
         /\ admitted' = [admitted EXCEPT ![c] = Append(@, now)]
         /\ lastAdmit' = [lastAdmit EXCEPT ![c] = now]
    ELSE UNCHANGED <<rate_limit_store, admitted, lastAdmit>>

\* a rejection that records the request all the same
RejectRecording(c, p) ==
    /\ Limited(c, p)
    /\ rate_limit_store' = [rate_limit_store EXCEPT ![c] = Append(Prune(@, now), now)]
    /\ last' = [NoStep EXCEPT !.op = "arrive", !.ip = c, !.path = p, !.code = 429,
                             !.prev = lastAdmit[c]]
    /\ UNCHANGED <<forecast, now, thread_last_active, storage, reqs, sweepAt, admitted, lastAdmit>>

\* rate_limit_middleware: a request over the limit is answered 429
Reject(c, p) ==
    /\ Limited(c, p)
    /\ rate_limit_store' = [rate_limit_store EXCEPT ![c] = Prune(@, now)]
    /\ last' = [NoStep EXCEPT !.op = "arrive", !.ip = c, !.path = p, !.code = 429,
                             !.prev = lastAdmit[c]]
    /\ UNCHANGED <<forecast, now, thread_last_active, storage, reqs, sweepAt, admitted, lastAdmit>>

\* rate_limit_middleware: a request to a path other than /api/chat is
\* passed to call_next, where no handler of this program runs
PassOther(c, p) ==
    /\ p # "/api/chat"
    /\ ~Limited(c, p)
    /\ Record(c, p)
    /\ last' = [NoStep EXCEPT !.op = "arrive", !.ip = c, !.path = p, !.code = 404,
                             !.prev = lastAdmit[c]]
    /\ UNCHANGED <<forecast, now, thread_last_active, storage, reqs, sweepAt>>

\* rate_limit_middleware: a POST /api/chat is passed to call_next and
\* waits for its handler
AdmitChat(c, tid) ==
    /\ ~Limited(c, "/api/chat")
    /\ Record(c, "/api/chat")
    /\ reqs[tid].pc \in {"none", "closed", "failed", "cancelled"}
    /\ reqs' = [reqs EXCEPT ![tid] = [NoReq EXCEPT !.pc = "admitted"]]
    /\ last' = [NoStep EXCEPT !.op = "arrive", !.ip = c, !.path = "/api/chat",
                             !.code = 200, !.prev = lastAdmit[c]]
    /\ UNCHANGED <<forecast, now, thread_last_active, storage, sweepAt>>

\* chat(): touch the thread, evict the oldest one when over MAX_THREADS,
\* return the StreamingResponse
Chat(tid) ==
    /\ reqs[tid].pc = "admitted"
    /\ LET touched == DictSet(thread_last_active, tid, now)
           over == OverCapacity(touched)
           oldest == MinKey(touched)
       IN /\ thread_last_active' = IF over THEN DictPop(touched, oldest) ELSE touched
          /\ storage' = IF over THEN storage \ {oldest} ELSE storage
          /\ last' = [NoStep EXCEPT !.op = "chat", !.tid = tid,
                                   !.gone = IF over THEN {oldest} ELSE {}]
    /\ reqs' = [reqs EXCEPT ![tid].pc = "streaming"]
    /\ UNCHANGED <<forecast, now, rate_limit_store, sweepAt, admitted, lastAdmit>>

\* the greatest idle time among the entries ks of d at time t0, -1 if none
OldestAge(d, ks, t0) ==
    IF ks = {} THEN -1
    ELSE CHOOSE a \in {t0 - Get(d, k) : k \in ks} : \A k \in ks : t0 - Get(d, k) <= a

\* a sweep without the membership test and the try/except of lines 46-50:
\* the first expired entry that has no checkpoint ends the pass
SweepUnguarded ==
    /\ now >= sweepAt
    /\ LET expired == {k \in Keys(thread_last_active) :
                          Expired(now, Get(thread_last_active, k))}
           done == IF expired \subseteq storage THEN expired ELSE {}
       IN /\ storage' = storage \ done
          /\ thread_last_active' = SelectSeq(thread_last_active, LAMBDA e : e.tid \notin done)
          /\ last' = [NoStep EXCEPT !.op = "sweep", !.gone = done,
                                   !.code = Cardinality(expired \ storage),
                                   !.prev = OldestAge(thread_last_active, done, now)]
    /\ sweepAt' = now + THREAD_CLEANUP_INTERVAL
    /\ UNCHANGED <<forecast, now, rate_limit_store, reqs, admitted, lastAdmit>>

\* a sweep that removes what will have expired by the time of the next one
SweepAhead ==
    /\ now >= sweepAt
    /\ LET expired == {k \in Keys(thread_last_active) :
                          Expired(now + THREAD_CLEANUP_INTERVAL, Get(thread_last_active, k))}
       IN /\ storage' = storage \ expired
          /\ thread_last_active' = SelectSeq(thread_last_active, LAMBDA e : e.tid \notin expired)
          /\ last' = [NoStep EXCEPT !.op = "sweep", !.gone = expired,
                                   !.code = Cardinality(expired \ storage),
                                   !.prev = OldestAge(thread_last_active, expired, now)]
    /\ sweepAt' = now + THREAD_CLEANUP_INTERVAL
    /\ UNCHANGED <<forecast, now, rate_limit_store, reqs, admitted, lastAdmit>>

\* cleanup_old_threads: one pass of the loop body after the sleep; the step
\* notes how many of the removed entries had no checkpoint (code) and how
\* long the oldest of them had been idle (prev)
Sweep ==
    /\ now >= sweepAt
    /\ LET expired == {k \in Keys(thread_last_active) :
                          Expired(now, Get(thread_last_active, k))}
       IN /\ storage' = storage \ expired
          /\ thread_last_active' = SelectSeq(thread_last_active, LAMBDA e : e.tid \notin expired)
          /\ last' = [NoStep EXCEPT !.op = "sweep", !.gone = expired,
                                   !.code = Cardinality(expired \ storage),
                                   !.prev = OldestAge(thread_last_active, expired, now)]
    /\ sweepAt' = now + THREAD_CLEANUP_INTERVAL
    /\ UNCHANGED <<forecast, now, rate_limit_store, reqs, admitted, lastAdmit>>

\* the agent saves a checkpoint of the thread it is running
AgentCheckpoint(tid) ==
    /\ reqs[tid].pc = "streaming"
    /\ tid \notin storage
    /\ storage' = storage \cup {tid}
    /\ last' = [NoStep EXCEPT !.op = "checkpoint"]
    /\ UNCHANGED <<forecast, now, rate_limit_store, thread_last_active, reqs, sweepAt,
                   admitted, lastAdmit>>

\* generate(): one turn of the async for loop on agent event e
AgentEvent(tid, e) ==
    /\ reqs[tid].pc = "streaming"
    /\ Len(reqs[tid].consumed) < MaxEvents
    /\ reqs' = [reqs EXCEPT ![tid].consumed = Append(@, e),
                            ![tid].out = @ \o Emit(e),
                            ![tid].pc = IF Raises(e) THEN "failed" ELSE "streaming"]
    /\ last' = [NoStep EXCEPT !.op = "event"]
    /\ UNCHANGED <<forecast, now, rate_limit_store, thread_last_active, storage, sweepAt,
                   admitted, lastAdmit>>

\* the agent's event sequence is exhausted: its last checkpoint is saved
StreamEnd(tid) ==
    /\ reqs[tid].pc = "streaming"
    /\ storage' = storage \cup {tid}
    /\ reqs' = [reqs EXCEPT ![tid].pc = "closed"]
    /\ last' = [NoStep EXCEPT !.op = "end"]
    /\ UNCHANGED <<forecast, now, rate_limit_store, thread_last_active, sweepAt, admitted, lastAdmit>>

\* what becomes of the stream when a tool function raises (none of them
\* catches anything): the exception enters the agent's tool node, which,
\* depending on the installed langgraph, turns it into an error message for
\* the model (the stream goes on) or lets it end the run (the stream fails)
ToolRaiseOutcomes == {"streaming", "failed"}

\* a tool of lines 109-188 raises while the agent runs it
ToolRaise(tid) ==
    /\ reqs[tid].pc = "streaming"
    /\ \E outcome \in ToolRaiseOutcomes :
          reqs' = [reqs EXCEPT ![tid].pc = outcome]
    /\ last' = [NoStep EXCEPT !.op = "toolraise", !.tid = tid]
    /\ UNCHANGED <<forecast, now, rate_limit_store, thread_last_active, storage, sweepAt,
                   admitted, lastAdmit>>

\* a cancellation that also drops the conversation store
CancelClearing(tid) ==
    /\ reqs[tid].pc = "streaming"
    /\ reqs' = [reqs EXCEPT ![tid].pc = "cancelled"]
    /\ thread_last_active' = <<>>
    /\ storage' = {}
    /\ last' = [NoStep EXCEPT !.op = "cancel", !.tid = tid]
    /\ UNCHANGED <<forecast, now, rate_limit_store, sweepAt, admitted, lastAdmit>>

\* the client disconnects: the response task is cancelled and generate()
\* is closed at its current await
Cancel(tid) ==
    /\ reqs[tid].pc = "streaming"
    /\ reqs' = [reqs EXCEPT ![tid].pc = "cancelled"]
    /\ last' = [NoStep EXCEPT !.op = "cancel", !.tid = tid]
    /\ UNCHANGED <<forecast, now, rate_limit_store, thread_last_active, storage, sweepAt,
                   admitted, lastAdmit>>

\* ---- specifications ----------------------------------------------------
\* the whole program; the specifications after it restrict the requests
\* that arrive, not what the program does with them
Next ==
    \/ Tick
    \/ \E c \in Clients, p \in Paths : Reject(c, p)
    \/ \E c \in Clients, p \in Paths : PassOther(c, p)
    \/ \E c \in Clients, tid \in Threads : AdmitChat(c, tid)
    \/ \E tid \in Threads : Chat(tid)
    \/ Sweep
    \/ \E tid \in Threads : AgentCheckpoint(tid)
    \/ \E tid \in Threads, e \in AgentEvents : AgentEvent(tid, e)
    \/ \E tid \in Threads : StreamEnd(tid)
    \/ \E tid \in Threads : ToolRaise(tid)
    \/ \E tid \in Threads : Cancel(tid)
    \/ GenerateStockForecast

Spec == Init /\ [][Next]_vars

\* the rate limiter: every client and path, one conversation, streams
\* whose agent produces no event
NextLimiter ==
    \/ Tick
    \/ \E c \in Clients, p \in Paths : Reject(c, p)
    \/ \E c \in Clients, p \in Paths : PassOther(c, p)
    \/ \E c \in Clients : AdmitChat(c, 1)
    \/ Chat(1)
    \/ StreamEnd(1)

SpecLimiter == Init /\ [][NextLimiter]_vars

\* the conversation store: one client, chat requests for every
\* conversation, the sweep, streams whose agent produces no event
NextStore ==
    \/ Tick
    \/ Reject("unknown", "/api/chat")
    \/ \E tid \in Threads : AdmitChat("unknown", tid)
    \/ \E tid \in Threads : Chat(tid)
    \/ Sweep
    \/ \E tid \in Threads : AgentCheckpoint(tid)
    \/ \E tid \in Threads : StreamEnd(tid)

SpecStore == Init /\ [][NextStore]_vars

\* the multiplexer: one client, one conversation, every agent event, the
\* clock standing still
NextStream ==
    \/ Reject("unknown", "/api/chat")
    \/ AdmitChat("unknown", 1)
    \/ Chat(1)
    \/ AgentCheckpoint(1)
    \/ \E e \in AgentEvents : AgentEvent(1, e)
    \/ StreamEnd(1)
    \/ ToolRaise(1)
    \/ Cancel(1)

SpecStream == Init /\ [][NextStream]_vars

\* the sweep task on a free event loop: every sweep runs in the second it
\* is due; one client, two conversations
NextTimer ==
    \/ TickOnTime
    \/ \E tid \in {1, 2} : AdmitChat("unknown", tid)
    \/ \E tid \in {1, 2} : Chat(tid)
    \/ \E tid \in {1, 2} : StreamEnd(tid)
    \/ Sweep

SpecTimer == Init /\ [][NextTimer]_vars /\ WF_vars(Sweep) /\ WF_vars(TickOnTime)

\* the forecast tool alone, over every input
NextForecast == GenerateStockForecast

SpecForecast == InitForecast /\ [][NextForecast]_vars

\* cancellation: one client, two conversations started in the same second,
\* agents that produce one kind of token
NextCancel ==
    \/ \E tid \in {1, 2} : AdmitChat("unknown", tid)
    \/ \E tid \in {1, 2} : Chat(tid)
    \/ \E tid \in {1, 2} : AgentCheckpoint(tid)
    \/ \E tid \in {1, 2} : AgentEvent(tid, [kind |-> "on_chat_model_stream", name |-> "",
                                             content |-> "a", ok |-> TRUE])
    \/ \E tid \in {1, 2} : StreamEnd(tid)
    \/ \E tid \in {1, 2} : Cancel(tid)

SpecCancel == Init /\ [][NextCancel]_vars

\* ---- properties ---------------------------------------------------------
Rejected == last.op = "arrive" /\ last.code = 429

\* C1: no rolling window of RATE_WINDOW seconds holds more than RATE_LIMIT
\* admitted requests of one identity, and a request to an /api/ path that
\* arrives when RATE_LIMIT requests of its identity were admitted within the
\* trailing window is answered 429.
C1_WindowNeverExceedsLimit ==
    \A c \in Clients :
        /\ Len(admitted[c]) <= RATE_LIMIT
        /\ Len(admitted[c]) >= RATE_LIMIT =>
               \A p \in Paths : IsApiPath(p) => Limited(c, p)

\* RATE_LIMIT + 1 requests of one identity within one second: the last is rejected
C1_Witness ==
    /\ Rejected
    /\ Len(admitted[last.ip]) = RATE_LIMIT
    /\ \A i \in DOMAIN admitted[last.ip] : admitted[last.ip][i] = now

\* C2: a rejected request records no timestamp (its identity's window is the
\* pruned window of before), leaves every other identity's window, the
\* conversation store, the checkpoints and the requests in flight unchanged,
\* and starts no stream.
C2_RejectionOnlyPrunes ==
    [][(last'.op = "arrive" /\ last'.code = 429) =>
          /\ rate_limit_store'[last'.ip] =
                 SelectSeq(rate_limit_store[last'.ip], LAMBDA t : InWindow(now, t))
          /\ \A d \in Clients \ {last'.ip} : rate_limit_store'[d] = rate_limit_store[d]
          /\ thread_last_active' = thread_last_active
          /\ storage' = storage
          /\ reqs' = reqs]_vars

\* a rejection while a conversation is tracked, a stream is in flight and
\* another identity has a window
C2_Witness ==
    /\ Rejected
    /\ thread_last_active # <<>>
    /\ \E tid \in Threads : reqs[tid].pc = "streaming"
    /\ \E d \in Clients \ {last.ip} : rate_limit_store[d] # <<>>

\* C3: an identity whose latest admitted request is more than RATE_WINDOW
\* seconds old (or that has none) is not rejected by the limiter.
C3_SpacedRequestsAdmitted ==
    \A c \in Clients :
        (lastAdmit[c] < 0 \/ now - lastAdmit[c] > RATE_WINDOW) =>
            \A p \in Paths : ~Limited(c, p)

\* a request admitted more than RATE_WINDOW seconds after the one before it
C3_Witness ==
    /\ last.op = "arrive"
    /\ last.code # 429
    /\ IsApiPath(last.path)
    /\ last.prev >= 0
    /\ now - last.prev > RATE_WINDOW

\* a chat() call that found the store full and touched a new conversation
EvictingTouch ==
    /\ last'.op = "chat"
    /\ Len(thread_last_active) = MAX_THREADS
    /\ last'.tid \notin Keys(thread_last_active)

\* what an evicting touch does once entry i of the store is the one to go
EvictsEntry(i) ==
    LET x == thread_last_active[i] IN
    /\ last'.gone = {x.tid}
    /\ Keys(thread_last_active') = (Keys(thread_last_active) \cup {last'.tid}) \ {x.tid}
    /\ Len(thread_last_active') = MAX_THREADS
    /\ x.tid \notin storage'
    /\ storage' = storage \ {x.tid}

\* C4 (as stated): with MAX_THREADS conversations tracked, touching a new ID
\* evicts exactly one entry, record and checkpoint: the one with the least
\* lastActiveAt and, among several with that value, the smallest ID.
C4_EvictsOldestSmallestId ==
    [][EvictingTouch =>
          \E i \in DOMAIN thread_last_active :
              /\ \A j \in DOMAIN thread_last_active :
                     \/ thread_last_active[j].last > thread_last_active[i].last
                     \/ /\ thread_last_active[j].last = thread_last_active[i].last
                        /\ thread_last_active[j].tid >= thread_last_active[i].tid
              /\ EvictsEntry(i)]_vars

\* C4 (amended): with MAX_THREADS conversations tracked, touching a new ID
\* evicts exactly one entry, record and checkpoint: the one with the least
\* lastActiveAt and, among several with that value, the one that entered the
\* store first.
C4_EvictsOldestFirstInserted ==
    [][EvictingTouch =>
          \E i \in DOMAIN thread_last_active :
              /\ \A j \in DOMAIN thread_last_active :
                     thread_last_active[j].last >= thread_last_active[i].last
              /\ \A j \in 1..(i - 1) :
                     thread_last_active[j].last > thread_last_active[i].last
              /\ EvictsEntry(i)]_vars

\* a touch of a new ID has just evicted an entry of the full store
C4_Witness ==
    /\ last.op = "chat"
    /\ last.gone # {}
    /\ last.tid \notin last.gone
    /\ Len(thread_last_active) = MAX_THREADS

\* C5: a sweep at time now removes exactly the entries with
\* now - lastActiveAt > THREAD_TTL, record and checkpoint, and leaves every
\* other entry as it was: one aged THREAD_TTL + 1 goes, one aged THREAD_TTL
\* or less stays.
C5_SweepRemovesExactlyExpired ==
    [][last'.op = "sweep" =>
          /\ \A i \in DOMAIN thread_last_active :
                 LET e == thread_last_active[i] IN
                 /\ now - e.last >= THREAD_TTL + 1 =>
                        e.tid \notin Keys(thread_last_active') /\ e.tid \notin storage'
                 /\ now - e.last <= THREAD_TTL =>
                        /\ e.tid \in Keys(thread_last_active')
                        /\ Get(thread_last_active', e.tid) = e.last
                        /\ (e.tid \in storage') = (e.tid \in storage)
          /\ thread_last_active' =
                 SelectSeq(thread_last_active, LAMBDA e : now - e.last <= THREAD_TTL)
          /\ storage' \subseteq storage
          /\ storage \ storage' \subseteq Keys(thread_last_active)]_vars

\* a sweep at THREAD_TTL + 1 has removed an entry (touched at 0, so aged
\* THREAD_TTL + 1) and kept one aged exactly THREAD_TTL
C5_Witness ==
    /\ last.op = "sweep"
    /\ last.gone # {}
    /\ now = THREAD_TTL + 1
    /\ \E i \in DOMAIN thread_last_active : now - thread_last_active[i].last = THREAD_TTL

\* C6 (as stated): no checkpoint exists for an ID that has no liveness
\* record, under every interleaving of requests, streams and sweeps.
C6_NoCheckpointWithoutRecord == storage \subseteq Keys(thread_last_active)

\* C7: the store holds at most one entry per conversation ID and at most
\* MAX_THREADS entries.
C7_OneEntryPerIdWithinCapacity ==
    /\ Len(thread_last_active) <= MAX_THREADS
    /\ \A i, j \in DOMAIN thread_last_active :
           thread_last_active[i].tid = thread_last_active[j].tid => i = j

\* the store is at capacity after an evicting touch that followed a sweep
C7_Witness ==
    /\ last.op = "chat"
    /\ last.gone # {}
    /\ Len(thread_last_active) = MAX_THREADS
    /\ sweepAt > THREAD_CLEANUP_INTERVAL

\* C8: after chat() has touched an ID at time now, the store holds an entry
\* for that ID whose lastActiveAt is now, also when the touch evicted an entry.
C8_TouchedEntryIsNow ==
    last.op = "chat" =>
        \E i \in DOMAIN thread_last_active :
            /\ thread_last_active[i].tid = last.tid
            /\ thread_last_active[i].last = now

\* a touch that evicted an entry while every entry had the timestamp now
C8_Witness ==
    /\ last.op = "chat"
    /\ last.gone # {}
    /\ \A i \in DOMAIN thread_last_active : thread_last_active[i].last = now

\* ---- the stream of one request ------------------------------------------
IsToken(e) == e.kind = "on_chat_model_stream"
IsToolEnd(e) == e.kind = "on_tool_end"

\* line l can have been written for agent event e
From(l, e) ==
    \/ IsToken(e) /\ l = [type |-> "text", data |-> e.content]
    \/ IsToolEnd(e) /\ l.type # "text" /\ l.data = e.content
    \/ IsToolEnd(e) /\ l.type = "text" /\ ~e.ok

\* an event that is to produce exactly one line
MustEmit(e) ==
    \/ IsToken(e) /\ e.content # ""
    \/ IsToolEnd(e) /\ e.name \in RecognisedTools

\* lines o are written for events c in their order, at most one line an
\* event and exactly one for the events that must emit
RECURSIVE InOrder(_, _)
InOrder(o, c) ==
    IF c = <<>> THEN o = <<>>
    ELSE \/ o # <<>> /\ From(Head(o), Head(c)) /\ InOrder(Tail(o), Tail(c))
         \/ ~MustEmit(Head(c)) /\ InOrder(o, Tail(c))

\* C9 (as stated): within one stream the lines written are in the arrival
\* order of the agent events that produced them, each event produces at most
\* one line, and exactly one when it is a non-empty token or the completion
\* of a recognised tool.
C9_OneLinePerEventInOrder ==
    \A tid \in Threads : InOrder(reqs[tid].out, reqs[tid].consumed)

\* the line the classification of C10 gives event e, as stated
StatedLines(e) ==
    IF IsToken(e) /\ e.content # "" THEN <<[type |-> "text", data |-> e.content]>>
    ELSE IF IsToolEnd(e) /\ e.name = "get_historical_stock_price"
    THEN <<[type |-> "chart", data |-> e.content]>>
    ELSE IF IsToolEnd(e) /\ e.name = "generate_stock_forecast"
    THEN <<[type |-> "forecast", data |-> e.content]>>
    ELSE IF IsToolEnd(e) /\ e.name = "get_analyst_recommendations"
    THEN <<[type |-> "analyst_rating", data |-> e.content]>>
    ELSE IF IsToolEnd(e) /\ e.name = "get_stock_news"
    THEN <<[type |-> "news", data |-> e.content]>>
    ELSE IF IsToolEnd(e) /\ e.name = "get_balance_sheet"
    THEN <<[type |-> "balance_sheet", data |-> e.content]>>
    ELSE <<>>

\* the same, with what a payload that json.dumps refuses gives
AmendedLines(e) ==
    IF IsToolEnd(e) /\ ~e.ok
    THEN IF e.name = "get_balance_sheet"
         THEN <<[type |-> "text", data |-> "Error displaying balance sheet."]>>
         ELSE <<>>
    ELSE StatedLines(e)

RECURSIVE StatedOut(_)
StatedOut(c) == IF c = <<>> THEN <<>> ELSE StatedLines(Head(c)) \o StatedOut(Tail(c))

RECURSIVE AmendedOut(_)
AmendedOut(c) == IF c = <<>> THEN <<>> ELSE AmendedLines(Head(c)) \o AmendedOut(Tail(c))

HasType(o, ty) == \E k \in DOMAIN o : o[k].type = ty

OnlyPriceTool(c) == \A k \in DOMAIN c : IsToolEnd(c[k]) => c[k].name = "get_stock_price"

PriceOnlyHasNoChart ==
    \A tid \in Threads :
        OnlyPriceTool(reqs[tid].consumed) =>
            ~HasType(reqs[tid].out, "chart") /\ ~HasType(reqs[tid].out, "forecast")

\* C10 (as stated): a token with non-empty content emits one 'text' line
\* with the fragment, a tool completion emits the line of its tool's type
\* (chart, forecast, analyst_rating, news, balance_sheet), every other event
\* emits nothing; a conversation that runs only the price tool has no
\* 'chart' and no 'forecast' line.
C10_ClassificationAsStated ==
    /\ \A tid \in Threads : reqs[tid].out = StatedOut(reqs[tid].consumed)
    /\ PriceOnlyHasNoChart

\* C10 (amended): as stated for every event whose payload json.dumps
\* accepts; a get_balance_sheet completion whose payload it refuses emits
\* one 'text' notice instead, and a completion of another recognised tool
\* whose payload it refuses emits nothing.
C10_ClassificationWhenSerializable ==
    /\ \A tid \in Threads : reqs[tid].out = AmendedOut(reqs[tid].consumed)
    /\ PriceOnlyHasNoChart

\* a closed stream in which the price tool ran and a token followed: it
\* holds a 'text' line and no structured line
C10_Witness ==
    \E tid \in Threads :
        /\ reqs[tid].pc = "closed"
        /\ \E k \in DOMAIN reqs[tid].consumed : reqs[tid].consumed[k].name = "get_stock_price"
        /\ OnlyPriceTool(reqs[tid].consumed)
        /\ HasType(reqs[tid].out, "text")
        /\ \A k \in DOMAIN reqs[tid].out : reqs[tid].out[k].type = "text"

\* ---- serialization and tool failures -------------------------------------
\* a completion of a recognised tool whose payload json.dumps refuses
FailsToSerialize(e) == IsToolEnd(e) /\ e.name \in RecognisedTools /\ ~e.ok

\* a 'text' line that is an error notice, not a token of the model
IsNotice(l) == l.type = "text" /\ l.data \notin {"a", "b"}

CountOf(q, Test(_)) == Cardinality({k \in DOMAIN q : Test(q[k])})

\* C11 (as stated): a payload of any type that fails to serialize is
\* replaced by one 'text' error notice and never ends the stream.
C11_SerializationFailureContained ==
    \A tid \in Threads :
        (\E k \in DOMAIN reqs[tid].consumed : FailsToSerialize(reqs[tid].consumed[k])) =>
            /\ reqs[tid].pc # "failed"
            /\ CountOf(reqs[tid].out, IsNotice) = CountOf(reqs[tid].consumed, FailsToSerialize)

\* C12 (as stated): a tool that raises on invocation leaves the stream
\* running (a contained error result), so that it still reaches CLOSED.
C12_ToolFailureContained ==
    last.op = "toolraise" => reqs[last.tid].pc = "streaming"

\* ---- cancellation ---------------------------------------------------------
OtherEntries(d, tid) == SelectSeq(d, LAMBDA e : e.tid # tid)

\* C16: cancelling a stream stops the consumption of its agent events and
\* leaves the liveness records and checkpoints of all other conversations,
\* the other requests and all rate windows as they were.
C16_CancelTouchesNothingElse ==
    [][/\ last'.op = "cancel" =>
              /\ reqs'[last'.tid].pc = "cancelled"
              /\ reqs'[last'.tid].consumed = reqs[last'.tid].consumed
              /\ \A t \in Threads \ {last'.tid} : reqs'[t] = reqs[t]
              /\ OtherEntries(thread_last_active', last'.tid) =
                     OtherEntries(thread_last_active, last'.tid)
              /\ storage' \ {last'.tid} = storage \ {last'.tid}
              /\ rate_limit_store' = rate_limit_store
       /\ \A t \in Threads :
              reqs[t].pc = "cancelled" /\ reqs'[t].pc = "cancelled" => reqs'[t] = reqs[t]]_vars

\* a stream is cancelled after it consumed an event, while another
\* conversation is tracked with a checkpoint and is streaming
C16_Witness ==
    /\ last.op = "cancel"
    /\ reqs[last.tid].consumed # <<>>
    /\ \E t \in Threads \ {last.tid} :
           /\ t \in Keys(thread_last_active)
           /\ t \in storage
           /\ reqs[t].pc = "streaming"

\* ---- the limiter's window boundary, scope and atomicity ------------------
ApiArrival == last'.op = "arrive" /\ last'.path \in {"/api/chat", "/api/other"}

\* the window of the arriving client after the check, without the
\* timestamp the check itself recorded
WindowAfterPrune ==
    IF last'.code = 429
    THEN rate_limit_store'[last'.ip]
    ELSE SubSeq(rate_limit_store'[last'.ip], 1, Len(rate_limit_store'[last'.ip]) - 1)

\* C14 (as stated): the prune drops exactly the timestamps with
\* now - t > RATE_WINDOW, so that one aged exactly RATE_WINDOW still counts.
C14_PruneDropsOlderThanWindow ==
    [][ApiArrival =>
          WindowAfterPrune = SelectSeq(rate_limit_store[last'.ip],
                                       LAMBDA t : ~(now - t > RATE_WINDOW))]_vars

\* C14 (amended): the prune keeps exactly the timestamps with
\* now - t < RATE_WINDOW, in their order, so that one aged exactly
\* RATE_WINDOW no longer counts; after every admission check all recorded
\* timestamps of that client are less than RATE_WINDOW old.
C14_PruneKeepsYoungerThanWindow ==
    [][ApiArrival =>
          /\ WindowAfterPrune = SelectSeq(rate_limit_store[last'.ip],
                                          LAMBDA t : now - t < RATE_WINDOW)
          /\ \A k \in DOMAIN rate_limit_store'[last'.ip] :
                 now - rate_limit_store'[last'.ip][k] < RATE_WINDOW
          /\ last'.code # 429 =>
                 rate_limit_store'[last'.ip][Len(rate_limit_store'[last'.ip])] = now]_vars

\* an admission check found, and dropped, a timestamp aged exactly RATE_WINDOW
C14_Witness ==
    /\ last.op = "arrive"
    /\ last.path = "/api/chat"
    /\ last.prev >= 0
    /\ last.prev = now - RATE_WINDOW
    /\ \A k \in DOMAIN rate_limit_store[last.ip] : rate_limit_store[last.ip][k] # last.prev

\* C15: a request to a path outside /api/ is never answered 429 and neither
\* prunes nor records anything in any window.
C15_OtherPathsBypassLimiter ==
    [][last'.op = "arrive" /\ last'.path = "/health" =>
          /\ last'.code # 429
          /\ rate_limit_store' = rate_limit_store]_vars

\* a /health request passed while its client's window was full and also
\* held a timestamp that a prune would have dropped
C15_Witness ==
    /\ last.op = "arrive"
    /\ last.path = "/health"
    /\ \E k \in DOMAIN rate_limit_store[last.ip] :
           now - rate_limit_store[last.ip][k] >= RATE_WINDOW
    /\ Len(rate_limit_store[last.ip]) >= RATE_LIMIT

\* C19: the prune, count and record of one admission check are one step, so
\* no window ever holds more than RATE_LIMIT timestamps and two requests
\* arriving together are never both admitted into the last free slot.
C19_WindowWithinLimit ==
    \A c \in Clients : Len(rate_limit_store[c]) <= RATE_LIMIT

\* RATE_LIMIT requests of one client were admitted in the same second and
\* the one that came with them was rejected
C19_Witness ==
    /\ last.op = "arrive"
    /\ last.code = 429
    /\ Len(rate_limit_store[last.ip]) = RATE_LIMIT
    /\ \A k \in DOMAIN rate_limit_store[last.ip] : rate_limit_store[last.ip][k] = now

\* ---- sweeps and evictions -------------------------------------------------
\* C13: an expired entry whose checkpoint is missing does not stop the
\* sweep: its liveness record and every other expired entry, with its
\* checkpoint, are removed and the next sweep is scheduled; a capacity
\* eviction of an entry without checkpoint removes its liveness record and
\* the request goes on to stream.
C13_MissingCheckpointDoesNotAbort ==
    [][/\ last'.op = "sweep" =>
              /\ \A i \in DOMAIN thread_last_active :
                     now - thread_last_active[i].last > THREAD_TTL =>
                         /\ thread_last_active[i].tid \notin Keys(thread_last_active')
                         /\ thread_last_active[i].tid \notin storage'
              /\ sweepAt' = now + THREAD_CLEANUP_INTERVAL
       /\ last'.op = "chat" /\ last'.gone # {} =>
              /\ last'.gone \cap (Keys(thread_last_active') \cup storage') = {}
              /\ reqs'[last'.tid].pc = "streaming"]_vars

\* a sweep removed two entries, one of which had no checkpoint
C13_Witness ==
    /\ last.op = "sweep"
    /\ last.code = 1
    /\ Cardinality(last.gone) = 2

\* C18: a sweep removes an entry only if now - last > THREAD_TTL holds of
\* the record as it is when the sweep removes it; a record touched before
\* the sweep, however shortly, is kept as the touch left it.
C18_SweepNeverLosesTouch ==
    [][last'.op = "sweep" =>
          \A i \in DOMAIN thread_last_active :
              now - thread_last_active[i].last <= THREAD_TTL =>
                  \E j \in DOMAIN thread_last_active' :
                      thread_last_active'[j] = thread_last_active[i]]_vars

\* a sweep removed an expired entry and kept one touched in the same second
C18_Witness ==
    /\ last.op = "sweep"
    /\ last.gone # {}
    /\ \E i \in DOMAIN thread_last_active :
           /\ thread_last_active[i].last = now
           /\ reqs[thread_last_active[i].tid].pc = "streaming"

\* the store holds the record that conversation t was last touched at time T
TouchedAt(t, T) ==
    \E i \in DOMAIN thread_last_active :
        thread_last_active[i].tid = t /\ thread_last_active[i].last = T

\* no entry is idle longer than THREAD_TTL + THREAD_CLEANUP_INTERVAL; each
\* sweep leaves no entry older than THREAD_TTL, removes what it expires
\* together with the checkpoints, and schedules the next sweep
IdleBounded ==
    /\ \A i \in DOMAIN thread_last_active :
           now - thread_last_active[i].last <= THREAD_TTL + THREAD_CLEANUP_INTERVAL
    /\ sweepAt <= now + THREAD_CLEANUP_INTERVAL
    /\ last.op = "sweep" =>
           /\ \A i \in DOMAIN thread_last_active : now - thread_last_active[i].last <= THREAD_TTL
           /\ last.gone \cap (Keys(thread_last_active) \cup storage) = {}
           /\ sweepAt = now + THREAD_CLEANUP_INTERVAL

C17_ForecastPointsFromLastObservedDate ==
    forecast.state = "returned" =>
        /\ forecast.sentinel <=> forecast.hist = <<>>
        /\ forecast.hist # <<>> =>
               /\ Len(forecast.points) = forecast.months
               /\ \A i \in 1..Len(forecast.points) :
                      /\ forecast.points[i].date = forecast.hist[Len(forecast.hist)] + 30 * i
                      /\ i > 1 => forecast.points[i - 1].date < forecast.points[i].date
                      /\ forecast.points[i].price * 10 - forecast.preds[i] \in -5..5

====
